---- MODULE Spec2Model ----
(***************************************************************************)
(* Model of cudants: AffineRegistration (registration/affine.py) and the   *)
(* field/gradient utilities (utils/imageutils.py).                         *)
(*                                                                         *)
(* A registration session is a state machine: the constructor, then        *)
(* optimize() walking zip(scales, iterations), each scale running its      *)
(* iteration loop with the convergence test.  Loss values are Python       *)
(* floats: finite rationals plus +inf, -inf and nan, with Python's         *)
(* arithmetic (nan propagates silently, a zero divisor raises).            *)
(***************************************************************************)
EXTENDS Integers, Sequences, FiniteSets, TLC

VARIABLES cfg, pc, err, affine, row, optimizer, steps, save_transformed,
          scale_idx, i, tol_ctr, prev_loss, cur_loss, moved_image,
          transformed_images, how, exits, ret, call

vars == <<cfg, pc, err, affine, row, optimizer, steps, save_transformed,
          scale_idx, i, tol_ctr, prev_loss, cur_loss, moved_image,
          transformed_images, how, exits, ret, call>>

\* the state of a registration session
regvars == <<cfg, pc, err, affine, row, optimizer, steps, save_transformed,
             scale_idx, i, tol_ctr, prev_loss, cur_loss, moved_image,
             transformed_images, how, exits, ret>>

(***************************************************************************)
(* Bounds of the model.                                                    *)
(***************************************************************************)
MaxIters == 4
MaxScales == 2
MaxTolIters == 1
MaxBatch == 2
MaxSquaring == 2
MaxAxes == 5
MaxChannels == 3

(***************************************************************************)
(* Python floats.  k is the class, n/d the value of a finite float (d > 0) *)
(* and n the sign of an infinity.                                          *)
(***************************************************************************)
Fin(n) == [k |-> "fin", n |-> n, d |-> 1]
Rat(n, d) == IF d < 0 THEN [k |-> "fin", n |-> 0 - n, d |-> 0 - d]
                      ELSE [k |-> "fin", n |-> n, d |-> d]
PosInf == [k |-> "inf", n |-> 1, d |-> 1]
NegInf == [k |-> "inf", n |-> 0 - 1, d |-> 1]
NaN == [k |-> "nan", n |-> 0, d |-> 1]
ZeroDivisionError == [k |-> "ZeroDivisionError", n |-> 0, d |-> 1]

\* a - b on Python floats
FSub(a, b) ==
    IF a.k = "nan" \/ b.k = "nan" THEN NaN
    ELSE IF a.k = "inf" /\ b.k = "inf"
         THEN (IF a.n = b.n THEN NaN ELSE a)
    ELSE IF a.k = "inf" THEN a
    ELSE IF b.k = "inf" THEN (IF b.n > 0 THEN NegInf ELSE PosInf)
    ELSE Rat(a.n * b.d - b.n * a.d, a.d * b.d)

\* a / b as IEEE-754 defines it: a zero divisor gives nan or an infinity
IEEEDiv(a, b) ==
    IF a.k = "nan" \/ b.k = "nan" THEN NaN
    ELSE IF a.k = "inf" /\ b.k = "inf" THEN NaN
    ELSE IF a.k = "inf"
         THEN (IF b.n < 0 THEN (IF a.n > 0 THEN NegInf ELSE PosInf) ELSE a)
    ELSE IF b.k = "inf" THEN Fin(0)
    ELSE IF b.n = 0
         THEN (IF a.n = 0 THEN NaN ELSE IF a.n > 0 THEN PosInf ELSE NegInf)
    ELSE Rat(a.n * b.d, a.d * b.n)

PyDivNoRaise(a, b) == IEEEDiv(a, b)

\* a / b on Python floats: float.__truediv__ raises on a zero divisor,
\* whatever the dividend, and follows IEEE-754 otherwise
PyDiv(a, b) ==
    IF b.k = "fin" /\ b.n = 0 THEN ZeroDivisionError
    ELSE IEEEDiv(a, b)

\* a < b on Python floats: every comparison with nan is False
FLt(a, b) ==
    IF a.k = "nan" \/ b.k = "nan" THEN FALSE
    ELSE IF a.k = "inf" THEN a.n < 0 /\ ~(b.k = "inf" /\ b.n < 0)
    ELSE IF b.k = "inf" THEN b.n > 0
    ELSE a.n * b.d < b.n * a.d

(***************************************************************************)
(* Tensors: a [N, R, C] tensor is a sequence of N matrices, each a         *)
(* sequence of R rows of C entries.                                        *)
(***************************************************************************)
Eye(r, c) == [x \in 1..r |-> [y \in 1..c |-> IF x = y THEN 1 ELSE 0]]
Repeat(n, m) == [b \in 1..n |-> m]
Shape(t) ==
    IF Len(t) = 0 THEN <<0>>
    ELSE IF Len(t[1]) = 0 THEN <<Len(t), 0>>
    ELSE <<Len(t), Len(t[1]), Len(t[1][1])>>

\* torch.cat([a, r], dim=1): the sizes must agree outside dimension 1
CatOK(a, r) ==
    /\ Len(Shape(a)) = 3
    /\ Len(Shape(r)) = 3
    /\ Shape(a)[1] = Shape(r)[1]
    /\ Shape(a)[3] = Shape(r)[3]
Cat(a, r) == [b \in 1..Len(a) |-> a[b] \o r[b]]

\* a - g, entry by entry
TensorSub(a, g) ==
    [b \in 1..Len(a) |-> [x \in 1..Len(a[b]) |->
        [y \in 1..Len(a[b][x]) |-> a[b][x][y] - g[b][x][y]]]]
Const(t, v) ==
    [b \in 1..Len(t) |-> [x \in 1..Len(t[b]) |->
        [y \in 1..Len(t[b][x]) |-> v]]]
OneHot(t) ==
    [b \in 1..Len(t) |-> [x \in 1..Len(t[b]) |->
        [y \in 1..Len(t[b][x]) |-> IF b = 1 /\ x = 1 /\ y = 1 THEN 1 ELSE 0]]]

None == <<>>
(***************************************************************************)
(* AffineRegistration.__init__                                             *)
(***************************************************************************)
SchedulesUnchecked(scales, iterations) == TRUE

\* AbstractRegistration.__init__ (cudants/registration/abstract.py) accepts
\* the schedule only when both lists have the same length
SchedulesConsistent(scales, iterations) == Len(scales) = Len(iterations)

AnyOptimizer(name) == TRUE

\* the optimizer names the constructor has a branch for
OptimizerSupported(name) == name \in {"SGD", "Adam"}

\* self.affine: init_rigid verbatim when given, else identity per batch item
InitAffine(init_rigid, N, dims) ==
    IF init_rigid # None THEN init_rigid ELSE Repeat(N, Eye(dims, dims + 1))

\* self.row: zeros of shape [N, 1, dims+1] with the last entry set to 1
InitRow(N, dims) ==
    Repeat(N, << [y \in 1..(dims + 1) |-> IF y = dims + 1 THEN 1 ELSE 0] >>)

\* get_affine_matrix
GetAffineMatrix(a, r) == Cat(a, r)

\* the second einsum of an iteration contracts the rows of the affine
\* matrix with moving_p2t, of shape [N, dims+1, dims+1]
EinsumOK(a, r, dims) == Shape(Cat(a, r))[2] = dims + 1

Construct ==
    /\ pc = "new"
    /\ IF ~SchedulesConsistent(cfg.scales, cfg.iterations)
       THEN /\ pc' = "ctor_error"
            /\ err' = "ConfigurationError"
            /\ UNCHANGED <<affine, row, optimizer>>
       ELSE IF ~OptimizerSupported(cfg.optimizer)
       THEN /\ pc' = "ctor_error"
            /\ err' = "ValueError"
            /\ UNCHANGED <<affine, row, optimizer>>
       ELSE /\ pc' = "constructed"
            /\ affine' = InitAffine(cfg.init_rigid, cfg.N, cfg.dims)
            /\ row' = InitRow(cfg.N, cfg.dims)
            /\ optimizer' = cfg.optimizer
            /\ err' = err
    /\ UNCHANGED <<cfg, steps, save_transformed, scale_idx, i, tol_ctr,
                   prev_loss, cur_loss, moved_image, transformed_images,
                   how, exits, ret, call>>

(***************************************************************************)
(* AffineRegistration.optimize                                             *)
(***************************************************************************)
Min(a, b) == IF a < b THEN a ELSE b
\* zip(self.scales, self.iterations) stops at the shorter list
Zip(s, t) == [k \in 1..Min(Len(s), Len(t)) |-> <<s[k], t[k]>>]
Schedule == Zip(cfg.scales, cfg.iterations)
Budget == Schedule[scale_idx][2]

Unbound == [scale |-> 0, iter |-> 0]
NoRet == [kind |-> "unset", images |-> <<>>]

KeepCtr(old) == old
ZeroPrevLoss(old) == Fin(0)

\* tol_ctr = 0 and prev_loss = np.inf at the top of the scale loop body
ScaleInitCtr(old) == 0
ScaleInitPrevLoss(old) == PosInf

ReachesMax(ctr, max) == ctr >= max

\* tol_ctr > self.max_tolerance_iters
ExceedsMax(ctr, max) == ctr > max

\* the update of one optimizer step: lr * gradient, of the parameter's shape
Update(t, kind) ==
    IF kind = "ones" THEN Const(t, 1)
    ELSE IF kind = "onehot" THEN OneHot(t)
    ELSE Const(t, 0)

\* optimizer.step(): the parameter list is [self.affine]
StepAffine(a, kind) == TensorSub(a, Update(a, kind))
StepRowToo(r, kind) == TensorSub(r, Update(r, kind))
StepRow(r, kind) == r

\* lines 88-101: the convergence test on (prev_loss, cur_loss)
Counted(ctr, max) ==
    [ctr |-> ctr + 1, brk |-> ExceedsMax(ctr + 1, max), raised |-> FALSE]
Reset == [ctr |-> 0, brk |-> FALSE, raised |-> FALSE]
ConvergenceTest(mode, prev, cur, tol, ctr, max) ==
    IF mode = "atol"
    THEN (IF FLt(FSub(prev, cur), tol) THEN Counted(ctr, max) ELSE Reset)
    ELSE IF mode = "rtol"
    THEN LET q == PyDiv(FSub(prev, cur), prev) IN
         IF q = ZeroDivisionError
         THEN [ctr |-> ctr, brk |-> FALSE, raised |-> TRUE]
         ELSE IF FLt(q, tol) THEN Counted(ctr, max) ELSE Reset
    ELSE [ctr |-> ctr, brk |-> FALSE, raised |-> FALSE]

\* optimize(save_transformed): lines 47-58
Optimize ==
    /\ pc = "constructed"
    /\ \E save \in BOOLEAN : save_transformed' = save
    /\ transformed_images' = <<>>
    /\ scale_idx' = 0
    /\ pc' = "for_scale"
    /\ UNCHANGED <<cfg, err, affine, row, optimizer, steps, i, tol_ctr,
                   prev_loss, cur_loss, moved_image, how, exits, ret, call>>

\* the next (scale, iters) pair of the zip: lines 60-71
ScaleInit ==
    /\ pc = "for_scale"
    /\ scale_idx < Len(Schedule)
    /\ scale_idx' = scale_idx + 1
    /\ tol_ctr' = ScaleInitCtr(tol_ctr)
    /\ prev_loss' = ScaleInitPrevLoss(prev_loss)
    /\ i' = 0
    /\ how' = "running"
    /\ pc' = "for_iter"
    /\ UNCHANGED <<cfg, err, affine, row, optimizer, steps, save_transformed,
                   cur_loss, moved_image, transformed_images, exits, ret,
                   call>>

\* one pass of the body of the iteration loop: lines 73-103
Iterate ==
    /\ pc = "for_iter"
    /\ i < Budget
    /\ IF ~(CatOK(affine, row) /\ EinsumOK(affine, row, cfg.dims))
       THEN /\ pc' = "error"
            /\ err' = "RuntimeError"
            /\ UNCHANGED <<affine, row, steps, i, tol_ctr, prev_loss,
                           cur_loss, moved_image, how>>
       ELSE \E loss \in cfg.losses, kind \in cfg.grads :
            LET t == ConvergenceTest(cfg.tolerance_mode, prev_loss, loss,
                                     cfg.tolerance, tol_ctr,
                                     cfg.max_tolerance_iters)
            IN /\ moved_image' = [scale |-> scale_idx, iter |-> i + 1]
               /\ affine' = StepAffine(affine, kind)
               /\ row' = StepRow(row, kind)
               /\ steps' = steps + 1
               /\ cur_loss' = loss
               /\ tol_ctr' = t.ctr
               /\ i' = i + 1
               /\ IF t.raised
                  THEN /\ pc' = "error"
                       /\ err' = "ZeroDivisionError"
                       /\ UNCHANGED <<prev_loss, how>>
                  ELSE IF t.brk
                  THEN /\ pc' = "end_scale"
                       /\ how' = "converged"
                       /\ UNCHANGED <<prev_loss, err>>
                  ELSE /\ pc' = "for_iter"
                       /\ prev_loss' = loss
                       /\ UNCHANGED <<how, err>>
    /\ UNCHANGED <<cfg, optimizer, save_transformed, scale_idx,
                   transformed_images, exits, ret, call>>

\* range(iters) is used up
ExhaustBudget ==
    /\ pc = "for_iter"
    /\ i >= Budget
    /\ pc' = "end_scale"
    /\ how' = "exhausted"
    /\ UNCHANGED <<cfg, err, affine, row, optimizer, steps, save_transformed,
                   scale_idx, i, tol_ctr, prev_loss, cur_loss, moved_image,
                   transformed_images, exits, ret, call>>

\* after the iteration loop of a scale: lines 104-105
EndScale ==
    /\ pc = "end_scale"
    /\ IF save_transformed /\ moved_image = Unbound
       THEN /\ pc' = "error"
            /\ err' = "UnboundLocalError"
            /\ UNCHANGED <<transformed_images, exits>>
       ELSE /\ pc' = "for_scale"
            /\ transformed_images' =
                   IF save_transformed
                   THEN Append(transformed_images, moved_image)
                   ELSE transformed_images
            /\ exits' = Append(exits, [how |-> how, iters |-> i])
            /\ err' = err
    /\ UNCHANGED <<cfg, affine, row, optimizer, steps, save_transformed,
                   scale_idx, i, tol_ctr, prev_loss, cur_loss, moved_image,
                   how, ret, call>>

\* the zip is used up: lines 107-108
Return ==
    /\ pc = "for_scale"
    /\ scale_idx >= Len(Schedule)
    /\ pc' = "done"
    /\ ret' = IF save_transformed
              THEN [kind |-> "list", images |-> transformed_images]
              ELSE [kind |-> "None", images |-> <<>>]
    /\ UNCHANGED <<cfg, err, affine, row, optimizer, steps, save_transformed,
                   scale_idx, i, tol_ctr, prev_loss, cur_loss, moved_image,
                   transformed_images, how, exits>>
    /\ call' = call

(***************************************************************************)
(* The sessions checked: the arguments of the constructor and what the     *)
(* image pair makes the loss and its gradient be.                          *)
(***************************************************************************)
Scales(n) == [k \in 1..n |-> 2 ^ (n - k)]
BudgetVals == {0, 1, MaxIters}
IterationLists(n) == [1..n -> BudgetVals]
LossVals == {Fin(0), Fin(1), Fin(0 - 1), PosInf, NegInf, NaN}
TolVals == {Fin(0), Fin(1), PosInf}
NoCall == [fn |-> "none", shape |-> <<>>, n |-> 0,
           res |-> [out |-> "none", outshape |-> <<>>, squarings |-> 0]]

\* sessions that exercise the convergence policy
LoopCfgs ==
    { [scales |-> Scales(n), iterations |-> its, optimizer |-> "SGD",
       tolerance |-> tol, max_tolerance_iters |-> mx, tolerance_mode |-> mode,
       init_rigid |-> None, N |-> 1, dims |-> 2,
       losses |-> LossVals, grads |-> {"zero"}] :
         n \in 1..MaxScales, its \in UNION {IterationLists(m) : m \in 1..MaxScales},
         tol \in TolVals, mx \in 0..MaxTolIters,
         mode \in {"atol", "rtol", "other"} }

InitSession ==
    /\ pc = "new"
    /\ err = "none"
    /\ affine = <<>>
    /\ row = <<>>
    /\ optimizer = "none"
    /\ steps = 0
    /\ save_transformed = FALSE
    /\ scale_idx = 0
    /\ i = 0
    /\ tol_ctr = 0
    /\ prev_loss = PosInf
    /\ cur_loss = NaN
    /\ moved_image = Unbound
    /\ transformed_images = <<>>
    /\ how = "none"
    /\ exits = <<>>
    /\ ret = NoRet
    /\ call = NoCall

Init ==
    /\ cfg \in {c \in LoopCfgs : Len(c.scales) = Len(c.iterations)}
    /\ InitSession

Next ==
    \/ Construct
    \/ Optimize
    \/ ScaleInit
    \/ Iterate
    \/ ExhaustBudget
    \/ EndScale
    \/ Return

Spec == Init /\ [][Next]_vars
\* sessions that exercise the constructor and the parameter tensors
InitRigids(N, dims) ==
    { None,
      Repeat(N, Eye(dims, dims + 1)),
      Const(Repeat(N, Eye(dims, dims + 1)), 2),
      Repeat(N, Eye(dims, dims)),
      Repeat(N, Eye(dims + 1, dims + 1)),
      Repeat(N + 1, Eye(dims, dims + 1)) }

SessionCfgs ==
    UNION { { [scales |-> Scales(n), iterations |-> its, optimizer |-> opt,
               tolerance |-> Fin(1), max_tolerance_iters |-> 0,
               tolerance_mode |-> "atol",
               init_rigid |-> init, N |-> N, dims |-> dims,
               losses |-> {Fin(0), Fin(1)},
               grads |-> {"zero", "ones", "onehot"}] :
                 n \in 1..MaxScales,
                 its \in UNION {[1..m -> {0, 2}] : m \in 1..MaxScales},
                 opt \in {"SGD", "Adam", "LBFGS"},
                 init \in InitRigids(N, dims) } :
            N \in 1..MaxBatch, dims \in {2, 3} }

InitSessions ==
    /\ cfg \in SessionCfgs
    /\ InitSession

SpecSessions == InitSessions /\ [][Next]_vars

(***************************************************************************)
(* utils/imageutils.py: a call is its function, the shape of its tensor    *)
(* argument, n, and what came of it.                                       *)
(***************************************************************************)
Last(s) == s[Len(s)]

ScalingAndSquaringNoRaise(shape, n) ==
    [out |-> "ok", outshape |-> shape, squarings |-> n]

\* scaling_and_squaring(u, grid, n) on u of the given shape: the branch is
\* chosen by the size of the last axis, and each of the n squarings permutes
\* v as a tensor of 5 (dims = 3) or 4 (dims = 2) axes
ScalingAndSquaring(shape, n) ==
    LET dims == Last(shape) IN
    IF dims = 3
    THEN (IF n > 0 /\ Len(shape) # 5
          THEN [out |-> "RuntimeError", outshape |-> <<>>, squarings |-> 0]
          ELSE [out |-> "ok", outshape |-> shape, squarings |-> n])
    ELSE IF dims = 2
    THEN (IF n > 0 /\ Len(shape) # 4
          THEN [out |-> "RuntimeError", outshape |-> <<>>, squarings |-> 0]
          ELSE [out |-> "ok", outshape |-> shape, squarings |-> n])
    ELSE [out |-> "ValueError", outshape |-> <<>>, squarings |-> 0]

\* image_gradient_singlechannel(image): one output channel per spatial axis
ImageGradientSinglechannel(shape) ==
    LET dims == Len(shape) - 2 IN
    IF dims = 2 \/ dims = 3
    THEN [out |-> "ok",
          outshape |-> [k \in 1..Len(shape) |->
                           IF k = 2 THEN dims * shape[2] ELSE shape[k]],
          squarings |-> 0]
    ELSE [out |-> "ValueError", outshape |-> <<>>, squarings |-> 0]

\* image_gradient(image)
ImageGradient(shape) ==
    IF shape[2] = 1 THEN ImageGradientSinglechannel(shape)
    ELSE [out |-> "NotImplementedError", outshape |-> <<>>, squarings |-> 0]

\* velocity fields [B, ...spatial, dims], with as many spatial axes as
\* components or not, and images [B, C, ...spatial]
FieldShapes ==
    { <<b>> \o [k \in 1..a |-> s] \o <<d>> :
        b \in 1..MaxBatch, a \in 0..MaxAxes, d \in 0..MaxAxes, s \in 1..2 }
ImageShapes ==
    { <<b, c>> \o [k \in 1..d |-> s] :
        b \in 1..MaxBatch, c \in 1..MaxChannels, d \in 0..MaxAxes, s \in 1..2 }

CallScalingAndSquaring ==
    /\ \E shape \in FieldShapes, n \in 0..MaxSquaring :
          call' = [fn |-> "scaling_and_squaring", shape |-> shape, n |-> n,
                   res |-> ScalingAndSquaring(shape, n)]
    /\ UNCHANGED regvars

CallImageGradient ==
    /\ \E shape \in ImageShapes :
          call' = [fn |-> "image_gradient", shape |-> shape, n |-> 0,
                   res |-> ImageGradient(shape)]
    /\ UNCHANGED regvars

InitUtils ==
    /\ cfg \in {c \in LoopCfgs : c.iterations = <<0>> /\ c.scales = <<1>>
                                  /\ c.tolerance = Fin(0)
                                  /\ c.max_tolerance_iters = 0
                                  /\ c.tolerance_mode = "atol"}
    /\ InitSession

NextUtils ==
    \/ CallScalingAndSquaring
    \/ CallImageGradient

SpecUtils == InitUtils /\ [][NextUtils]_vars
(***************************************************************************)
(* Properties.                                                             *)
(***************************************************************************)
HomogeneousRow(dims) == [y \in 1..(dims + 1) |-> IF y = dims + 1 THEN 1 ELSE 0]
Constructed ==
    pc \in {"constructed", "for_scale", "for_iter", "end_scale", "done",
            "error"}
AnIteration == pc = "for_iter" /\ i < Budget

\* the improvement of an iteration, from previous loss P to current loss L
Improvement(mode, P, L) ==
    IF mode = "atol" THEN FSub(P, L) ELSE PyDiv(FSub(P, L), P)

\* C1: in 'atol' and 'rtol' mode every iteration that completes its
\* convergence test increments the counter when the improvement is below
\* the tolerance and resets it to 0 otherwise; the scale's loop is left by
\* the break exactly when the counter then exceeds max_tolerance_iters, and
\* once it is left no iteration of that scale runs again.
C1_CounterAndStop ==
    [][ /\ (AnIteration /\ cfg.tolerance_mode \in {"atol", "rtol"}
              /\ pc' # "error")
           => /\ tol_ctr' =
                    IF FLt(Improvement(cfg.tolerance_mode, prev_loss,
                                       cur_loss'), cfg.tolerance)
                    THEN tol_ctr + 1 ELSE 0
              /\ (pc' = "end_scale" /\ how' = "converged")
                    <=> (tol_ctr' > cfg.max_tolerance_iters)
              /\ pc' \in {"for_iter", "end_scale"}
              /\ i' = i + 1
        /\ (pc = "end_scale")
           => /\ steps' = steps
              /\ i' = i
              /\ pc' \in {"for_scale", "error"}
        /\ (pc = "for_scale" /\ pc' = "for_iter")
           => scale_idx' = scale_idx + 1 ]_vars

C1_Witness ==
    /\ pc = "end_scale"
    /\ how = "converged"
    /\ cfg.tolerance_mode = "rtol"
    /\ cfg.max_tolerance_iters = 1
    /\ tol_ctr = 2
    /\ i = 3
    /\ i < Budget

\* C2: after the first iteration of a scale the counter is 0 and the scale
\* has not been left by the break, whatever the mode, tolerance,
\* max_tolerance_iters and first loss.
C2_FirstIterationNeverCounts ==
    (pc \in {"for_iter", "end_scale"} /\ i = 1)
       => (tol_ctr = 0 /\ how # "converged")

C2_Witness ==
    /\ pc = "for_iter"
    /\ i = 1
    /\ tol_ctr = 0
    /\ cfg.tolerance_mode = "rtol"
    /\ cfg.tolerance = PosInf
    /\ cfg.max_tolerance_iters = 0
    /\ cur_loss = Fin(1)
    /\ prev_loss = Fin(1)

\* C3: in 'rtol' mode an iteration whose previous loss is exactly 0 ends in
\* ZeroDivisionError: the loop is aborted, the counter is neither
\* incremented nor reset, and the previous loss is not overwritten.
C3_ZeroPreviousLossRaises ==
    [][ (AnIteration /\ cfg.tolerance_mode = "rtol" /\ prev_loss = Fin(0))
           => /\ pc' = "error"
              /\ err' = "ZeroDivisionError"
              /\ tol_ctr' = tol_ctr
              /\ prev_loss' = prev_loss ]_vars

C3_Witness ==
    /\ pc = "error"
    /\ err = "ZeroDivisionError"
    /\ cfg.tolerance_mode = "rtol"
    /\ prev_loss = Fin(0)
    /\ i >= 2

\* C4: with scales and iterations of different lengths the constructor
\* fails with a configuration error; no scale is entered and no optimizer
\* step is taken.
C4_MismatchedScheduleRejected ==
    (Len(cfg.scales) # Len(cfg.iterations))
       => /\ pc \in {"new", "ctor_error"}
          /\ (pc = "ctor_error" => err = "ConfigurationError")
          /\ steps = 0
          /\ scale_idx = 0

C4_Witness ==
    /\ pc = "ctor_error"
    /\ err = "ConfigurationError"
    /\ Len(cfg.scales) = 2
    /\ Len(cfg.iterations) = 1
    /\ cfg.optimizer = "SGD"

\* C5: an init_rigid whose shape is not [batch, dims, dims+1] never gets
\* past the constructor.
C5_MalformedInitRejectedAtConstruction ==
    (cfg.init_rigid # None
        /\ Shape(cfg.init_rigid) # <<cfg.N, cfg.dims, cfg.dims + 1>>)
       => pc \in {"new", "ctor_error"}

\* C6: with an optimizer name other than 'SGD' and 'Adam' the constructor
\* fails; no optimizer is built, no scale is entered and no optimizer step
\* is taken.
C6_UnknownOptimizerRejected ==
    (cfg.optimizer \notin {"SGD", "Adam"})
       => /\ pc \in {"new", "ctor_error"}
          /\ (pc = "ctor_error"
                => err \in {"ValueError", "ConfigurationError"})
          /\ optimizer = "none"
          /\ steps = 0
          /\ scale_idx = 0

C6_Witness ==
    /\ pc = "ctor_error"
    /\ err = "ValueError"
    /\ cfg.optimizer = "LBFGS"
    /\ Len(cfg.scales) = Len(cfg.iterations)

\* C7: whenever get_affine_matrix returns, the last row of every batch
\* item's matrix is [0,...,0,1], after any number of optimizer steps.
C7_LastRowIsHomogeneous ==
    (Constructed /\ CatOK(affine, row))
       => \A b \in 1..Len(affine) :
             Last(GetAffineMatrix(affine, row)[b]) = HomogeneousRow(cfg.dims)

C7_Witness ==
    /\ pc = "done"
    /\ steps >= 3
    /\ scale_idx = 2
    /\ cfg.N = 2
    /\ affine # InitAffine(cfg.init_rigid, cfg.N, cfg.dims)
    /\ affine[1][1][1] # affine[2][1][1]
    /\ Last(GetAffineMatrix(affine, row)[2]) = HomogeneousRow(cfg.dims)

\* C8: when optimize is done it has returned the final affine matrix and,
\* with save_transformed, a list of one moved image per scale, the k-th
\* produced by the iterations of the k-th scale; a scale of budget 0 does
\* not make optimize fail.
C8_ReturnsMatrixAndPerScaleImages ==
    /\ err # "UnboundLocalError"
    /\ (pc = "done")
          => /\ ret.kind \in {"matrix", "matrix_and_list"}
             /\ save_transformed
                   => /\ Len(ret.images) = Len(cfg.scales)
                      /\ \A k \in 1..Len(ret.images) :
                            ret.images[k].scale = k

\* the dimensionality of the argument of a call: the components of a field,
\* the axes of an image after batch and channel
SpatialDims(c) ==
    IF c.fn = "image_gradient" THEN Len(c.shape) - 2 ELSE Last(c.shape)
\* C9 as stated: both functions raise ValueError exactly for the inputs
\* whose spatial dimensionality is not 2 or 3, whatever the channel count.
C9_DomainErrorWhateverTheChannels ==
    (call.fn # "none")
       => ((call.res.out = "ValueError") <=> (SpatialDims(call) \notin {2, 3}))

\* C9, amended: scaling_and_squaring raises ValueError exactly for the
\* fields whose dimensionality is not 2 or 3, whatever n; image_gradient
\* raises ValueError exactly for the single-channel images whose
\* dimensionality is not 2 or 3, and NotImplementedError for every other
\* channel count, whatever the dimensionality.
C9_DomainErrorSingleChannel ==
    /\ (call.fn = "scaling_and_squaring")
          => ((call.res.out = "ValueError")
                 <=> (SpatialDims(call) \notin {2, 3}))
    /\ (call.fn = "image_gradient" /\ call.shape[2] = 1)
          => ((call.res.out = "ValueError")
                 <=> (SpatialDims(call) \notin {2, 3}))
    /\ (call.fn = "image_gradient" /\ call.shape[2] # 1)
          => call.res.out = "NotImplementedError"

C9_Witness ==
    /\ call.fn = "image_gradient"
    /\ call.shape[2] = 1
    /\ SpatialDims(call) = 4
    /\ call.res.out = "ValueError"

\* C10: at the start of every scale, before its first iteration, the
\* counter is 0 and the previous loss is +infinity.
C10_ConvergenceStateReset ==
    (pc = "for_iter" /\ i = 0) => (tol_ctr = 0 /\ prev_loss = PosInf)

C10_Witness ==
    /\ pc = "for_iter"
    /\ i = 0
    /\ scale_idx = 2
    /\ exits[1].how = "converged"
    /\ exits[1].iters < cfg.iterations[1]
    /\ cur_loss # NaN
====
